---- MODULE Spec2Model ----
(***************************************************************************)
(* Upload queue of BucketKitProvider                                       *)
(* (packages/bucketkit-react/src/context.tsx).                             *)
(*                                                                         *)
(* One action is one browser task together with the promise continuations  *)
(* it triggers.  React commits the batched setItems updaters before the    *)
(* next task, so a user operation is invoked through the callbacks of the  *)
(* latest render and its closure sees `items` as they are when the         *)
(* operation starts.  A setTimeout callback keeps the processQueue closure *)
(* of the render in which it was scheduled: it carries that render's       *)
(* `items` and `maxConcurrent`, while the two refs (abortControllers,      *)
(* uploadQueueRef) are read live.                                          *)
(*                                                                         *)
(* generateUploadId has no uniqueness check, so two records may carry the  *)
(* same id; every update of the store, the handle map and the marker set   *)
(* go by id.  A record is told apart from the others by its File object,   *)
(* and a running uploadFile invocation by its own AbortController.         *)
(***************************************************************************)
EXTENDS Integers, Sequences, FiniteSets, TLC

\* ------------------------------------------------------------------ bounds
MaxFiles == 2            \* the File objects the caller has; each is submitted once
MaxCalls == 3            \* lifecycle operations the caller invokes
MaxSteps == 6            \* browser tasks (operations and events) that run

\* maxConcurrent = 3 in the parameter list of BucketKitProvider
DefaultMaxConcurrent == 3

\* the values of the maxConcurrent prop: one transfer at a time, the default
MaxConcurrentValues == {1, DefaultMaxConcurrent}

\* ------------------------------------------------------------ input domains
\* the i-th File object of the caller (name, size in bytes, MIME type)
File(i) ==
  IF i % 2 = 1
  THEN [name |-> "photo" \o ToString(i) \o ".png", size |-> 3,
        type |-> "image/png"]
  ELSE [name |-> "doc" \o ToString(i) \o ".pdf", size |-> 1,
        type |-> "application/pdf"]

Files == {File(i) : i \in 1..MaxFiles}

\* Date.now() readings and Math.random().toString(36).slice(2, 9) results
Instants == {1, 2}
RandomSuffixes == {"k3j9x2a", "0p4qz81"}

\* generateUploadId: `upload-${Date.now()}-${Math.random()...slice(2, 9)}`
generateUploadId(now, suffix) == "upload-" \o ToString(now) \o "-" \o suffix

GeneratedIds == {generateUploadId(t, r) : t \in Instants, r \in RandomSuffixes}

\* the ids generateUploadId returns to the provider: two calls may get
\* different ids or the same one
Ids == {generateUploadId(1, "k3j9x2a"), generateUploadId(2, "0p4qz81")}

\* an id that generateUploadId never returned: no record ever carries it
GhostId == "no-such-upload"

\* the answers of the presign endpoint the provider keeps: publicUrl and key
PresignedResponses ==
  {[publicUrl |-> "https://cdn.example/a", key |-> "uploads/k1"],
   [publicUrl |-> "https://cdn.example/b", key |-> "uploads/k1"],
   [publicUrl |-> "https://cdn.example/b", key |-> "uploads/k2"]}

HttpStatuses == {200, 403}
ResolverMessages == {"Failed to get upload URL", "Upload cancelled"}
\* what a caller-supplied onUploadComplete may do, and the message it throws
CallbackOutcomes == {"returns", "throws"}
CallbackMessage == "callback failed"
Undefined == "undefined"

\* no answer of the presign endpoint yet
NoResponse == [publicUrl |-> Undefined, key |-> Undefined]

\* the largest file size, in bytes
MaxSize == CHOOSE n \in {f.size : f \in Files} : \A f \in Files : f.size <= n

VARIABLES
  items,             \* useState<UploadItem[]>: the committed record list
  abortControllers,  \* useRef Map id -> AbortController (named by its attempt)
  uploadQueueRef,    \* useRef Set of ids marked "admission in flight"
  attempt,           \* running uploadFile invocations, by handle number
  timers,            \* pending setTimeout(() => processQueue(), 0) callbacks
  submitted,         \* the File objects handed to addFiles so far
  autoUpload,        \* provider option
  maxConcurrent,     \* provider option
  calls,             \* number of lifecycle operations invoked so far
  last,              \* name of the operation or event that ran last
  invoked,           \* callbacks (onUploadComplete, onError) the last step called
  steps,             \* number of browser tasks that have run
  core               \* a BucketKit instance of bucketkit-core and its last call

vars == <<items, abortControllers, uploadQueueRef, attempt, timers, submitted,
          autoUpload, maxConcurrent, calls, last, invoked, steps, core>>

\* ------------------------------------------------------------ pure helpers
Range(s) == {s[i] : i \in 1..Len(s)}

ItemIds(list) == {list[i].id : i \in 1..Len(list)}

ItemFiles(list) == {list[i].file : i \in 1..Len(list)}

\* Math.round(n / d) for integers n >= 0, d > 0 (halves round up); the double
\* n / d of one division lies on the same side of every half as the quotient
MathRound(n, d) == (2 * n + d) \div (2 * d)

\* a slip of the slice: the last elements are taken instead of the first
SliceTo_FromEnd(s, end) ==
  LET k == IF end < 0
           THEN (IF Len(s) + end < 0 THEN 0 ELSE Len(s) + end)
           ELSE (IF end > Len(s) THEN Len(s) ELSE end)
  IN SubSeq(s, Len(s) - k + 1, Len(s))

\* Array.prototype.slice(0, end)
SliceTo(s, end) ==
  LET k == IF end < 0
           THEN (IF Len(s) + end < 0 THEN 0 ELSE Len(s) + end)
           ELSE (IF end > Len(s) THEN Len(s) ELSE end)
  IN SubSeq(s, 1, k)

\* { ...item, ...updates }
Merge(item, updates) ==
  [f \in DOMAIN item |-> IF f \in DOMAIN updates THEN updates[f] ELSE item[f]]

\* updateItem: prev.map(item => item.id === id ? {...item, ...updates} : item)
updateItem(prev, id, updates) ==
  [i \in 1..Len(prev) |->
     IF prev[i].id = id THEN Merge(prev[i], updates) ELSE prev[i]]

\* the record addFiles creates for one file
NewItem(id, f) ==
  [id |-> id, fileName |-> f.name, size |-> f.size,
   status |-> "queued", progress |-> 0, contentType |-> f.type,
   file |-> f, error |-> Undefined, url |-> Undefined, key |-> Undefined]

\* files.map(file => ({ id: generateUploadId(), ... })); ids[i] is what the
\* i-th call of generateUploadId returns
NewItems(files, ids) ==
  [i \in 1..Len(files) |-> NewItem(ids[i], files[i])]

\* ------------------------------------------------------------ processQueue
QueuedItems(snap, marked) ==
  SelectSeq(snap, LAMBDA item : item.status = "queued" /\ item.id \notin marked)

UploadingCount(snap) ==
  Len(SelectSeq(snap, LAMBDA item : item.status = "uploading"))

SlotsAvailable(snap, maxC) == maxC - UploadingCount(snap)

ItemsToUpload(snap, maxC, marked) ==
  SliceTo(QueuedItems(snap, marked), SlotsAvailable(snap, maxC))

\* a slip of the first update of uploadFile: progress is not reset
StartUploads_ProgressKept(list, ids) ==
  [i \in 1..Len(list) |->
     IF list[i].id \in ids
     THEN Merge(list[i], [status |-> "uploading"])
     ELSE list[i]]

\* synchronous prefix of uploadFile for every id of `ids`, applied to `list`
StartUploads(list, ids) ==
  [i \in 1..Len(list) |->
     IF list[i].id \in ids
     THEN Merge(list[i], [status |-> "uploading", progress |-> 0])
     ELSE list[i]]

\* uploadFile(item) up to its first await: a new AbortController, not
\* aborted, and the resolver request for item.file
NewAttempt(item) ==
  [id |-> item.id, file |-> item.file, phase |-> "presign",
   presigned |-> NoResponse, loaded |-> 0, aborted |-> FALSE]

\* the j-th smallest handle number that names no running invocation
NthFree(used, j) ==
  CHOOSE h \in 1..(Cardinality(used) + j) :
    h \notin used /\ Cardinality({x \in 1..h : x \notin used}) = j

\* processQueue run by a closure that sees `snap` and `maxC`; `base` is the
\* record list after the updaters queued earlier in the same task.  The
\* selection is made once, before the loop, so two selected records with the
\* same id are both started; the handle map keeps the controller set last.
processQueue(snap, maxC, base) ==
  LET itemsToUpload == ItemsToUpload(snap, maxC, uploadQueueRef)
      n == Len(itemsToUpload)
      ids == ItemIds(itemsToUpload)
      handle(i) == NthFree(DOMAIN attempt, i)
      started == {handle(i) : i \in 1..n}
      indexOf(h) == CHOOSE i \in 1..n : handle(i) = h
      lastWith(id) ==
        CHOOSE i \in 1..n :
          /\ itemsToUpload[i].id = id
          /\ \A j \in (i + 1)..n : itemsToUpload[j].id # id
  IN /\ uploadQueueRef' = uploadQueueRef \cup ids
     /\ abortControllers' =
          [id \in DOMAIN abortControllers \cup ids |->
             IF id \in ids THEN handle(lastWith(id)) ELSE abortControllers[id]]
     /\ attempt' =
          [h \in DOMAIN attempt \cup started |->
             IF h \in started
             THEN NewAttempt(itemsToUpload[indexOf(h)])
             ELSE attempt[h]]
     /\ items' = StartUploads(base, ids)

\* what a processQueue closure reads of the `items` of its render: the id,
\* status and file of every record
Snapshot(list) ==
  [i \in 1..Len(list) |->
     [id |-> list[i].id, status |-> list[i].status, file |-> list[i].file]]

Closure(by, id) ==
  [items |-> Snapshot(items), maxConcurrent |-> maxConcurrent,
   by |-> by, id |-> id]

\* ---------------------------------------------------------- bucketkit-core
\* (packages/bucketkit-core/src/bucket-kit.ts, utils.ts)
\* An optional field is the set of its values: {} when it is undefined.
DEFAULT_MAX_SIZE == 10 * 1024 * 1024

\* config.defaultUploadPolicy and params.policyOverrides
DefaultPolicies ==
  [maxSize : {{}, {10}},
   allowedMimeTypes : {{}, {<<"image/*">>}},
   pathResolver : {{}, {"configResolver"}}]

OverridePolicies ==
  [maxSize : {{}, {5}, {0}},
   allowedMimeTypes : {{}, {<<>>}, {<<"application/pdf", "text/*">>}},
   pathResolver : {{}, {"overrideResolver"}}]

\* A file name is the sequence of its UTF-16 code units.
\* "a.png"
NamePng == <<97, 46, 112, 110, 103>>
\* the names "a.png", "", "  ", "\n", U+00A0 U+3000 and " a\n"
FileNames == {NamePng, <<>>, <<32, 32>>, <<10>>, <<160, 12288>>, <<32, 97, 10>>}
ContentTypes == {"image/png", "application/pdf", "video/mp4", "text/css"}
Sizes == {0, 5, 10, 11, DEFAULT_MAX_SIZE + 1}

\* ValidateUploadParams / CreatePresignedUploadParams
UploadParams ==
  [fileName : FileNames, contentType : ContentTypes, size : Sizes,
   policyOverrides : OverridePolicies]

\* what a caller-supplied pathResolver and getSignedUrl may do
ResolverOutcomes == {"returns", "throws"}
SigningOutcomes == {"signed", "fails"}

\* a ?? b
NullishOr(a, b) == IF a # {} THEN a ELSE b

ValueOf(option) == CHOOSE v \in option : TRUE

\* String.prototype.startsWith, endsWith
StartsWith(s, prefix) ==
  Len(s) >= Len(prefix) /\ SubSeq(s, 1, Len(prefix)) = prefix

EndsWith(s, suffix) ==
  Len(s) >= Len(suffix) /\ SubSeq(s, Len(s) - Len(suffix) + 1, Len(s)) = suffix

\* the code units String.prototype.trim strips: the WhiteSpace and
\* LineTerminator code points of ECMAScript (TAB, LF, VT, FF, CR, SP, NBSP,
\* U+1680, U+2000..U+200A, LS, PS, U+202F, U+205F, U+3000, U+FEFF)
Whitespace ==
  {9, 10, 11, 12, 13, 32, 160, 5760, 8232, 8233, 8239, 8287, 12288, 65279}
    \cup 8192..8202

RECURSIVE TrimStart(_)
TrimStart(s) ==
  IF Len(s) > 0 /\ s[1] \in Whitespace
  THEN TrimStart(SubSeq(s, 2, Len(s)))
  ELSE s

RECURSIVE TrimEnd(_)
TrimEnd(s) ==
  IF Len(s) > 0 /\ s[Len(s)] \in Whitespace
  THEN TrimEnd(SubSeq(s, 1, Len(s) - 1))
  ELSE s

\* String.prototype.trim
Trim(s) == TrimEnd(TrimStart(s))

\* mimeTypeMatches: exact match, or a pattern ending in "/*" whose text up
\* to the slash is a prefix of the type
mimeTypeMatches(mimeType, pattern) ==
  IF mimeType = pattern THEN TRUE
  ELSE IF EndsWith(pattern, "/*")
       THEN StartsWith(mimeType, SubSeq(pattern, 1, Len(pattern) - 1))
       ELSE FALSE

\* allowedTypes.some(pattern => mimeTypeMatches(mimeType, pattern))
isMimeTypeAllowed(mimeType, allowedTypes) ==
  \E i \in 1..Len(allowedTypes) : mimeTypeMatches(mimeType, allowedTypes[i])

\* a slip of the merge: the default policy wins over the overrides
mergePolicy_DefaultFirst(defaultPolicy, overrides) ==
  [maxSize |->
     ValueOf(NullishOr(defaultPolicy.maxSize,
                       NullishOr(overrides.maxSize, {DEFAULT_MAX_SIZE}))),
   allowedMimeTypes |->
     NullishOr(defaultPolicy.allowedMimeTypes, overrides.allowedMimeTypes),
   pathResolver |->
     ValueOf(NullishOr(defaultPolicy.pathResolver,
                       NullishOr(overrides.pathResolver,
                                 {"defaultPathResolver"})))]

\* mergePolicy: overrides ?? defaultPolicy ?? built-in default, per field
mergePolicy(defaultPolicy, overrides) ==
  [maxSize |->
     ValueOf(NullishOr(overrides.maxSize,
                       NullishOr(defaultPolicy.maxSize, {DEFAULT_MAX_SIZE}))),
   allowedMimeTypes |->
     NullishOr(overrides.allowedMimeTypes, defaultPolicy.allowedMimeTypes),
   pathResolver |->
     ValueOf(NullishOr(overrides.pathResolver,
                       NullishOr(defaultPolicy.pathResolver,
                                 {"defaultPathResolver"})))]

Invalid(code) == [valid |-> FALSE, code |-> code]

\* validateUploadRequest of the instance created with defaultUploadPolicy
validateUploadRequest(defaultUploadPolicy, params) ==
  LET policy == mergePolicy(defaultUploadPolicy, params.policyOverrides)
  IN IF params.size > policy.maxSize
     THEN Invalid("FILE_TOO_LARGE")
     ELSE IF /\ policy.allowedMimeTypes # {}
             /\ Len(ValueOf(policy.allowedMimeTypes)) > 0
             /\ ~isMimeTypeAllowed(params.contentType,
                                   ValueOf(policy.allowedMimeTypes))
     THEN Invalid("INVALID_MIME_TYPE")
     ELSE IF params.fileName = <<>> \/ Trim(params.fileName) = <<>>
     THEN Invalid("INVALID_FILE_NAME")
     ELSE [valid |-> TRUE, code |-> Undefined]

\* the key a path resolver returns for a request
ResolvedKey(pathResolver, params) == <<pathResolver, params.fileName>>

NoKey == <<>>

Rejected(name, code, called) ==
  [rejected |-> TRUE, error |-> name, code |-> code, method |-> Undefined,
   key |-> NoKey, called |-> called]

\* a slip of createPresignedUpload: the request is not validated
createPresignedUpload_Unvalidated(defaultUploadPolicy, params, resolving, signing) ==
  LET pathResolver ==
        mergePolicy(defaultUploadPolicy, params.policyOverrides).pathResolver
  IN IF pathResolver # "defaultPathResolver" /\ resolving = "throws"
     THEN Rejected("Error", Undefined, <<"pathResolver">>)
     ELSE IF signing = "fails"
     THEN Rejected("BucketKitError", "S3_ERROR",
                   <<"pathResolver", "getSignedUrl">>)
     ELSE [rejected |-> FALSE, error |-> Undefined, code |-> Undefined,
           method |-> "PUT", key |-> ResolvedKey(pathResolver, params),
           called |-> <<"pathResolver", "getSignedUrl">>]

\* createPresignedUpload: the settled promise and the collaborators called;
\* `resolving` is what a caller-supplied pathResolver does, `signing` what
\* getSignedUrl does
createPresignedUpload(defaultUploadPolicy, params, resolving, signing) ==
  LET validation == validateUploadRequest(defaultUploadPolicy, params)
      pathResolver ==
        mergePolicy(defaultUploadPolicy, params.policyOverrides).pathResolver
  IN IF ~validation.valid
     THEN Rejected("BucketKitError", validation.code, <<>>)
     ELSE IF pathResolver # "defaultPathResolver" /\ resolving = "throws"
     THEN Rejected("Error", Undefined, <<"pathResolver">>)
     ELSE IF signing = "fails"
     THEN Rejected("BucketKitError", "S3_ERROR",
                   <<"pathResolver", "getSignedUrl">>)
     ELSE [rejected |-> FALSE, error |-> Undefined, code |-> Undefined,
           method |-> "PUT", key |-> ResolvedKey(pathResolver, params),
           called |-> <<"pathResolver", "getSignedUrl">>]

\* no BucketKit instance is in use
NoInstance == [op |-> "none"]

\* ------------------------------------------------------------------- Init
Init ==
  /\ items = <<>>
  /\ abortControllers = [id \in {} |-> 0]
  /\ uploadQueueRef = {}
  /\ attempt = [h \in {} |-> {}]
  /\ timers = <<>>
  /\ submitted = {}
  /\ autoUpload \in BOOLEAN
  /\ maxConcurrent \in MaxConcurrentValues
  /\ calls = 0
  /\ steps = 0
  /\ last = "init"
  /\ invoked = <<>>
  /\ core = NoInstance

\* ------------------------------------------------------- lifecycle actions
\* the caller invokes one more lifecycle operation
Call(op) ==
  /\ calls < MaxCalls /\ calls' = calls + 1
  /\ steps < MaxSteps /\ steps' = steps + 1
  /\ last' = op /\ invoked' = <<>> /\ core' = core

\* a timer callback or a transfer event runs
Event(ev) ==
  /\ steps < MaxSteps /\ steps' = steps + 1
  /\ calls' = calls /\ last' = ev /\ invoked' = <<>> /\ core' = core

\* the last continuation of an uploadFile invocation runs and calls cbs
Ends(ev, cbs) ==
  /\ steps < MaxSteps /\ steps' = steps + 1
  /\ calls' = calls /\ last' = ev /\ invoked' = cbs /\ core' = core

\* the arrays of File objects a caller passes: no object twice
FileLists ==
  UNION {{files \in [1..n -> Files] :
            \A i, j \in 1..n : files[i] = files[j] => i = j} :
         n \in 0..MaxFiles}

\* what generateUploadId returns in the calls made for an array of n files
IdLists(n) == [1..n -> Ids]

\* none of the File objects was submitted before: every selection in a file
\* input or a drop yields new File objects, and a record is told from the
\* others by the object it holds
Unsubmitted(files) == Range(files) \cap submitted = {}

addFiles(files, ids) ==
  /\ Call("addFiles")
  /\ Unsubmitted(files)
  /\ Len(ids) = Len(files)
  /\ items' = items \o NewItems(files, ids)
  /\ submitted' = submitted \cup Range(files)
  /\ timers' = IF autoUpload
               THEN Append(timers, Closure("addFiles", Undefined))
               ELSE timers
  /\ UNCHANGED <<abortControllers, uploadQueueRef, attempt, autoUpload,
                 maxConcurrent>>

ValueOfArg(arg) == CHOOSE v \in arg : TRUE

\* the optional argument `files` of uploadFiles: {} when it is omitted,
\* {files} when an array (an empty one included) is passed
FileArgs == {{}} \cup {{files} : files \in FileLists}

FilesOf(arg) == IF arg = {} THEN <<>> ELSE ValueOfArg(arg)

\* uploadFiles(files?): if (files) addFiles(files), an empty array included;
\* then processQueue() of the same render
uploadFiles(arg, ids) ==
  /\ Call("uploadFiles")
  /\ Unsubmitted(FilesOf(arg))
  /\ Len(ids) = Len(FilesOf(arg))
  /\ submitted' = submitted \cup Range(FilesOf(arg))
  /\ timers' = IF arg # {} /\ autoUpload
               THEN Append(timers, Closure("addFiles", Undefined))
               ELSE timers
  /\ processQueue(items, maxConcurrent,
                  items \o NewItems(FilesOf(arg), ids))
  /\ UNCHANGED <<autoUpload, maxConcurrent>>

\* controller.abort() reaches the XHR of invocation h: the signal's abort
\* listener exists only once the XHR has been set up, and an already aborted
\* signal dispatches nothing
AbortDelivered(h) == attempt[h].phase = "xhr" /\ ~attempt[h].aborted

Without(f, x) == [y \in DOMAIN f \ {x} |-> f[y]]

\* the ids of the running uploadFile invocations
AttemptIds(running) == {running[h].id : h \in DOMAIN running}

\* the statuses of the records that carry id
StatusesOf(list, id) ==
  {list[i].status : i \in {j \in 1..Len(list) : list[j].id = id}}

\* a slip of the finally block: the admission marker is not deleted
finishUpload_MarkerKept(h) ==
  /\ abortControllers' = Without(abortControllers, attempt[h].id)
  /\ uploadQueueRef' = uploadQueueRef
  /\ attempt' = Without(attempt, h)

\* finally { abortControllers.delete(id); uploadQueueRef.delete(id) } of
\* invocation h: whatever controller is registered under the id goes
finishUpload(h) ==
  /\ abortControllers' = Without(abortControllers, attempt[h].id)
  /\ uploadQueueRef' = uploadQueueRef \ {attempt[h].id}
  /\ attempt' = Without(attempt, h)

\* effect of abortControllers.get(id)?.abort() in cancelUpload(id) on the
\* refs and on the running uploadFile, whatever the status of the record
abortUpload(id) ==
  IF id \notin DOMAIN abortControllers
  THEN UNCHANGED <<abortControllers, uploadQueueRef, attempt>>
  ELSE IF AbortDelivered(abortControllers[id])
  THEN \* xhr.abort() -> reject("Upload cancelled") -> catch, finally
       finishUpload(abortControllers[id])
  ELSE /\ attempt' =
            [attempt EXCEPT ![abortControllers[id]].aborted = TRUE]
       /\ UNCHANGED <<abortControllers, uploadQueueRef>>

\* a slip of cancelUpload: the cancelled record is dropped from the store
CancelledItems_Dropped(prev, id) ==
  SelectSeq(prev, LAMBDA item : item.id # id)

\* the updater cancelUpload queues (the catch branch of an aborted transfer
\* queues the same update again)
CancelledItems(prev, id) ==
  updateItem(prev, id, [status |-> "error", error |-> "Cancelled"])

cancelUpload(id) ==
  /\ Call("cancelUpload")
  /\ abortUpload(id)
  /\ items' = CancelledItems(items, id)
  /\ UNCHANGED <<timers, submitted, autoUpload, maxConcurrent>>

RemovedItems(prev, id) == SelectSeq(prev, LAMBDA item : item.id # id)

removeItem(id) ==
  /\ Call("removeItem")
  /\ abortUpload(id)
  /\ items' = RemovedItems(CancelledItems(items, id), id)
  /\ UNCHANGED <<timers, submitted, autoUpload, maxConcurrent>>

\* a slip of retryUpload: the reset also clears the size
RetriedItems_SizeReset(prev, id) ==
  updateItem(prev, id,
             [status |-> "queued", progress |-> 0, error |-> Undefined,
              size |-> 0])

RetriedItems(prev, id) ==
  updateItem(prev, id,
             [status |-> "queued", progress |-> 0, error |-> Undefined])

retryUpload(id) ==
  /\ Call("retryUpload")
  /\ items' = RetriedItems(items, id)
  /\ timers' = Append(timers, Closure("retryUpload", id))
  /\ UNCHANGED <<abortControllers, uploadQueueRef, attempt, submitted,
                 autoUpload, maxConcurrent>>

\* a slip of clearCompleted: only 'complete' records are filtered out
ClearedItems_CompleteOnly(prev) ==
  SelectSeq(prev, LAMBDA item : item.status # "complete")

\* prev.filter(item => item.status !== "complete" && item.status !== "error")
ClearedItems(prev) ==
  SelectSeq(prev,
            LAMBDA item : item.status # "complete" /\ item.status # "error")

clearCompleted ==
  /\ Call("clearCompleted")
  /\ items' = ClearedItems(items)
  /\ UNCHANGED <<abortControllers, uploadQueueRef, attempt, timers, submitted,
                 autoUpload, maxConcurrent>>

\* a pending setTimeout callback runs the processQueue it closed over
timerFires ==
  /\ timers # <<>>
  /\ Event("timerFires")
  /\ processQueue(Head(timers).items, Head(timers).maxConcurrent, items)
  /\ timers' = Tail(timers)
  /\ UNCHANGED <<submitted, autoUpload, maxConcurrent>>

\* --------------------------------------------------------- transfer events
\* getPresignedUrl of invocation h resolves; the XHR is opened and sent
presignOk(h, response) ==
  /\ h \in DOMAIN attempt
  /\ attempt[h].phase = "presign"
  /\ Event("presignOk")
  /\ attempt' = [attempt EXCEPT ![h].phase = "xhr", ![h].presigned = response]
  /\ UNCHANGED <<items, abortControllers, uploadQueueRef, timers, submitted,
                 autoUpload, maxConcurrent>>

\* a slip of the catch block: the message is stored, the status is left
CaughtUpdate_StatusKept(msg) ==
  IF msg = "Upload cancelled"
  THEN [error |-> "Cancelled"]
  ELSE [error |-> msg]

\* catch (error): the update of the record
CaughtUpdate(msg) ==
  IF msg = "Upload cancelled"
  THEN [status |-> "error", error |-> "Cancelled"]
  ELSE [status |-> "error", error |-> msg]

\* catch (error): the callbacks it calls
CaughtCallbacks(msg) ==
  IF msg = "Upload cancelled" THEN <<>> ELSE <<"onError">>

\* JSON bodies of a non-ok resolver response: the optional fields error and
\* message ({} when the field is missing or the body is not JSON)
ResolverBodies ==
  {[error |-> {}, message |-> {}],
   [error |-> {""}, message |-> {}],
   [error |-> {}, message |-> {"Upload cancelled"}],
   [error |-> {"Upload cancelled"}, message |-> {"Failed to get upload URL"}]}

\* a || b on optional strings
TruthyOr(a, b) == IF a # {} /\ ValueOf(a) # "" THEN a ELSE b

\* the message of the Error getPresignedUrl throws for a non-ok response
ResolverErrorMessage(body) ==
  ValueOf(TruthyOr(body.error,
                   TruthyOr(body.message, {"Failed to get upload URL"})))

\* getPresignedUrl of invocation h throws Error(msg); catch, finally
presignFails(h, msg) ==
  /\ h \in DOMAIN attempt
  /\ attempt[h].phase = "presign"
  /\ Ends("presignFails", CaughtCallbacks(msg))
  /\ items' = updateItem(items, attempt[h].id, CaughtUpdate(msg))
  /\ finishUpload(h)
  /\ UNCHANGED <<timers, submitted, autoUpload, maxConcurrent>>

\* ---- IEEE 754 binary64 arithmetic of the progress listener, for byte
\* counts below 2^29.  A positive double is [m |-> <<a, b, c>>, exp |-> e]:
\* the 53 bit significand a * 2^36 + b * 2^18 + c, with 2^16 <= a < 2^17 and
\* b, c < 2^18, and the value significand * 2^(e - 53).
Limb == 2^18

RECURSIVE QuotientBits(_, _, _)
\* the first k binary digits of r / d (0 <= r < d), as a number
QuotientBits(r, d, k) ==
  IF k = 0
  THEN 0
  ELSE ((2 * r) \div d) * 2^(k - 1) + QuotientBits((2 * r) % d, d, k - 1)

RECURSIVE RemainderAfter(_, _, _)
\* what is left of r after k binary digits of r / d
RemainderAfter(r, d, k) ==
  IF k = 0 \/ r = 0 THEN r ELSE RemainderAfter((2 * r) % d, d, k - 1)

RECURSIVE LeadingZeros(_, _)
\* the number of zeros that open the binary expansion of n / d (0 < n < d)
LeadingZeros(n, d) ==
  IF 2 * n >= d THEN 0 ELSE 1 + LeadingZeros(2 * n, d)

RECURSIVE IntegerBits(_, _)
\* the number of binary digits of the integer part of n / d (n >= d)
IntegerBits(n, d) ==
  IF n < 2 * d THEN 1 ELSE 1 + IntegerBits(n, 2 * d)

\* round to nearest, ties to even: the exact value has the significand
\* <<a, b, c>>, then the bit guard, then something more when sticky
RoundToDouble(a, b, c, guard, sticky, e) ==
  IF ~(guard = 1 /\ (sticky \/ c % 2 = 1))
  THEN [m |-> <<a, b, c>>, exp |-> e]
  ELSE IF c + 1 < Limb
       THEN [m |-> <<a, b, c + 1>>, exp |-> e]
       ELSE IF b + 1 < Limb
            THEN [m |-> <<a, b + 1, 0>>, exp |-> e]
            ELSE IF a + 1 < 2^17
                 THEN [m |-> <<a + 1, 0, 0>>, exp |-> e]
                 ELSE [m |-> <<2^16, 0, 0>>, exp |-> e + 1]

\* the double n / d for integers n >= 1, d >= 1
DoubleDiv(n, d) ==
  LET e == IF n >= d THEN IntegerBits(n, d) ELSE -LeadingZeros(n, d)
      \* n / d = (num / den) * 2^e with 1/2 <= num / den < 1
      num == IF n >= d THEN n ELSE n * 2^(-e)
      den == IF n >= d THEN d * 2^e ELSE d
      a == QuotientBits(num, den, 17)
      r1 == RemainderAfter(num, den, 17)
      b == QuotientBits(r1, den, 18)
      r2 == RemainderAfter(r1, den, 18)
      c == QuotientBits(r2, den, 18)
      r3 == RemainderAfter(r2, den, 18)
  IN RoundToDouble(a, b, c, QuotientBits(r3, den, 1),
                   RemainderAfter(r3, den, 1) # 0, e)

\* the double x * k for an integer k in 1..2^13
DoubleTimes(x, k) ==
  LET pc == x.m[3] * k
      pb == x.m[2] * k + pc \div Limb
      pa == x.m[1] * k + pb \div Limb
      \* the exact product is pa * 2^36 + (pb % Limb) * 2^18 + pc % Limb;
      \* s is the number of bits it has beyond 53
      s == CHOOSE i \in 0..13 : 2^(16 + i) <= pa /\ pa < 2^(17 + i)
      p == 2^s
      dropped == (pc % Limb) % p
  IN RoundToDouble(pa \div p,
                   (pa % p) * (Limb \div p) + (pb % Limb) \div p,
                   ((pb % Limb) % p) * (Limb \div p) + (pc % Limb) \div p,
                   IF s = 0 THEN 0 ELSE dropped \div (p \div 2),
                   s > 0 /\ dropped % (p \div 2) # 0,
                   x.exp + s)

\* the first k bits of the significand of x, as a number (1 <= k <= 30)
SignificandTop(x, k) ==
  IF k <= 17
  THEN x.m[1] \div 2^(17 - k)
  ELSE x.m[1] * 2^(k - 17) + x.m[2] \div 2^(35 - k)

\* Math.round(x) of a positive double below 2^29: the nearest integer,
\* halves go up
MathRoundDouble(x) ==
  IF x.exp < 0 THEN 0 ELSE (SignificandTop(x, x.exp + 1) + 1) \div 2

\* Math.round((event.loaded / event.total) * 100), for total >= 1
ProgressOf(loaded, total) ==
  IF loaded = 0
  THEN 0
  ELSE MathRoundDouble(DoubleTimes(DoubleDiv(loaded, total), 100))

\* xhr.upload "progress" event of invocation h, with lengthComputable
xhrProgress(h, loaded) ==
  /\ h \in DOMAIN attempt
  /\ attempt[h].phase = "xhr"
  /\ loaded > attempt[h].loaded
  /\ loaded <= attempt[h].file.size
  /\ Event("xhrProgress")
  /\ attempt' = [attempt EXCEPT ![h].loaded = loaded]
  /\ items' = updateItem(items, attempt[h].id,
                         [progress |-> ProgressOf(loaded, attempt[h].file.size)])
  /\ UNCHANGED <<abortControllers, uploadQueueRef, timers, submitted,
                 autoUpload, maxConcurrent>>

IsSuccessStatus(st) == st >= 200 /\ st < 300

\* updateItem(item.id, { status: "complete", progress: 100,
\*                       url: presigned.publicUrl, key: presigned.key })
CompletedItems(prev, id, response) ==
  updateItem(prev, id, [status |-> "complete", progress |-> 100,
                        url |-> response.publicUrl, key |-> response.key])

StatusMessage(st) == "Upload failed with status " \o ToString(st)

\* xhr "load" event of invocation h: resolve on 2xx, else reject; on 2xx the
\* complete update and onUploadComplete, which returns or throws (cb); then
\* catch / finally
xhrLoad(h, st, cb) ==
  /\ h \in DOMAIN attempt
  /\ attempt[h].phase = "xhr"
  /\ IF IsSuccessStatus(st)
     THEN IF cb = "returns"
          THEN /\ Ends("xhrLoad", <<"onUploadComplete">>)
               /\ items' = CompletedItems(items, attempt[h].id,
                                          attempt[h].presigned)
          ELSE /\ Ends("xhrLoad", <<"onUploadComplete">>
                                    \o CaughtCallbacks(CallbackMessage))
               /\ items' = updateItem(
                              CompletedItems(items, attempt[h].id,
                                             attempt[h].presigned),
                              attempt[h].id, CaughtUpdate(CallbackMessage))
     ELSE /\ cb = "returns"
          /\ Ends("xhrLoad", CaughtCallbacks(StatusMessage(st)))
          /\ items' = updateItem(items, attempt[h].id,
                                 CaughtUpdate(StatusMessage(st)))
  /\ finishUpload(h)
  /\ UNCHANGED <<timers, submitted, autoUpload, maxConcurrent>>

\* xhr "error" event of invocation h
xhrError(h) ==
  /\ h \in DOMAIN attempt
  /\ attempt[h].phase = "xhr"
  /\ Ends("xhrError", CaughtCallbacks("Upload failed"))
  /\ items' = updateItem(items, attempt[h].id, CaughtUpdate("Upload failed"))
  /\ finishUpload(h)
  /\ UNCHANGED <<timers, submitted, autoUpload, maxConcurrent>>

\* ------------------------------------------------------------------- Next
Created == ItemIds(items)

\* the ids a caller passes to cancelUpload, removeItem and retryUpload: any
\* string, whether a record carries it, carried it once, or never will
CallableIds == Ids \cup {GhostId}

\* the handle numbers uploadFile invocations can have
Handles == 1..(2 * MaxCalls * MaxFiles)

Next ==
  \/ \E files \in FileLists : \E ids \in IdLists(Len(files)) :
       addFiles(files, ids)
  \/ \E arg \in FileArgs : \E ids \in IdLists(Len(FilesOf(arg))) :
       uploadFiles(arg, ids)
  \/ \E id \in CallableIds : cancelUpload(id)
  \/ \E id \in CallableIds : removeItem(id)
  \/ \E id \in CallableIds : retryUpload(id)
  \/ clearCompleted
  \/ timerFires
  \/ \E h \in Handles, response \in PresignedResponses : presignOk(h, response)
  \/ \E h \in Handles, body \in ResolverBodies :
       presignFails(h, ResolverErrorMessage(body))
  \/ \E h \in Handles, loaded \in 1..MaxSize : xhrProgress(h, loaded)
  \/ \E h \in Handles, st \in HttpStatuses, cb \in CallbackOutcomes :
       xhrLoad(h, st, cb)
  \/ \E h \in Handles : xhrError(h)

Spec == Init /\ [][Next]_vars


\* ------------------------------------------------------------ derived state
RelevantItems(list) ==
  SelectSeq(list,
            LAMBDA item : item.status = "uploading" \/ item.status = "complete")

RECURSIVE TotalProgress(_)
\* relevantItems.reduce((acc, item) => acc + item.progress, 0)
TotalProgress(list) ==
  IF list = <<>> THEN 0 ELSE Head(list).progress + TotalProgress(Tail(list))

\* a slip of the derived progress: the average is taken over all records
overallProgress_AllItems(list) ==
  IF Len(list) = 0 THEN 0 ELSE MathRound(TotalProgress(list), Len(list))

\* the `progress` memo of the provider
overallProgress(list) ==
  IF Len(RelevantItems(list)) = 0
  THEN 0
  ELSE MathRound(TotalProgress(RelevantItems(list)), Len(RelevantItems(list)))

\* the record made for File object f (a File object is submitted once)
ItemOf(list, f) == CHOOSE item \in Range(list) : item.file = f

StatusOf(list, f) ==
  IF f \in ItemFiles(list) THEN ItemOf(list, f).status ELSE "absent"

ErrorOf(list, f) ==
  IF f \in ItemFiles(list) THEN ItemOf(list, f).error ELSE Undefined

IndexOf(list, f) == CHOOSE i \in 1..Len(list) : list[i].file = f

HasStatus(list, st) == \E i \in 1..Len(list) : list[i].status = st

\* the uploadFile invocations entered in this step, and those that ran their
\* last continuation in it (no step does both)
Started == DOMAIN attempt' \ DOMAIN attempt

Ended == DOMAIN attempt \ DOMAIN attempt'

\* the File objects for which uploadFile is entered in this step
StartedFiles == {attempt'[h].file : h \in Started}

\* uploadFile invocation h leaves its try block through a transfer event
TransferEnds(h) ==
  \/ \E st \in HttpStatuses, cb \in CallbackOutcomes : xhrLoad(h, st, cb)
  \/ xhrError(h)
  \/ \E msg \in ResolverMessages : presignFails(h, msg)

\* ================================================================== claims

\* C1: the number of records with status 'uploading' is at most maxConcurrent
\* in every reachable state.
C1_UploadingWithinLimit == UploadingCount(items) <= maxConcurrent

\* C2: with autoUpload and an empty store, addFiles with K > maxConcurrent
\* files makes the admission pass it schedules set exactly the first
\* maxConcurrent new records to 'uploading' and leave the rest 'queued'.
C2_AddFilesAdmitsFirstM ==
  [][(/\ timerFires
      /\ autoUpload
      /\ Head(timers).by = "addFiles"
      /\ Head(timers).items = <<>>
      /\ uploadQueueRef = {}
      /\ Len(items) > maxConcurrent
      /\ \A i \in 1..Len(items) : items[i].status = "queued")
     => /\ Len(items') = Len(items)
        /\ \A i \in 1..Len(items) :
             items'[i].status =
               IF i <= maxConcurrent THEN "uploading" ELSE "queued"]_vars

\* C3: when all maxConcurrent slots are taken and a record is queued, the end
\* of one transfer (complete or error) is followed, with no user action, by
\* the admission of one queued record: after the event either the slot is
\* taken again or an admission pass is pending.
C3_CompletionAdmitsNext ==
  [][\A h \in DOMAIN attempt :
       (/\ UploadingCount(items) = maxConcurrent
        /\ StatusOf(items, attempt[h].file) = "uploading"
        /\ QueuedItems(items, uploadQueueRef) # <<>>
        /\ TransferEnds(h))
       => \/ UploadingCount(items') = maxConcurrent
          \/ timers' # <<>>]_vars

\* C4: processQueue invoked twice in succession by the same closure (no store
\* change observed in between) starts no transfer in the second invocation.
C4_SecondPassStartsNothing ==
  LET first == ItemIds(ItemsToUpload(items, maxConcurrent, uploadQueueRef))
  IN ItemsToUpload(items, maxConcurrent, uploadQueueRef \cup first) = <<>>

\* the user aborted the running invocation h through cancelUpload/removeItem
UserAborted(h) == h \in DOMAIN attempt /\ attempt[h].aborted

\* C5: cancelUpload(id) on a record that is 'uploading' (resolver pending or
\* bytes in transit) either frees the handle and the marker at once or leaves
\* the attempt aborted, and an attempt the user aborted ends with the record
\* in status 'error' with error 'Cancelled'.
C5_CancelEndsAttemptCancelled ==
  [][\A h \in DOMAIN attempt :
       /\ (/\ StatusOf(items, attempt[h].file) = "uploading"
           /\ attempt[h].id \in DOMAIN abortControllers
           /\ abortControllers[attempt[h].id] = h
           /\ cancelUpload(attempt[h].id))
          => \/ (/\ attempt[h].id \notin DOMAIN abortControllers'
                 /\ attempt[h].id \notin uploadQueueRef')
             \/ (h \in DOMAIN attempt' /\ attempt'[h].aborted)
       /\ (/\ UserAborted(h)
           /\ h \in Ended
           /\ attempt[h].file \in ItemFiles(items'))
          => (/\ StatusOf(items', attempt[h].file) = "error"
              /\ ErrorOf(items', attempt[h].file) = "Cancelled")]_vars

\* C6: retryUpload(id) on an 'error' record sets status 'queued', progress 0
\* and no error, and the admission pass it schedules, finding a free slot and
\* the record first in line, starts a new attempt (resolver invoked anew).
C6_RetryReadmits ==
  [][\A f \in ItemFiles(items) :
       /\ (StatusOf(items, f) = "error" /\ retryUpload(ItemOf(items, f).id))
          => (/\ StatusOf(items', f) = "queued"
              /\ ItemOf(items', f).progress = 0
              /\ ErrorOf(items', f) = Undefined)
       /\ (/\ timers # <<>>
           /\ Head(timers).by = "retryUpload"
           /\ Head(timers).id = ItemOf(items, f).id
           /\ StatusOf(Head(timers).items, f) = "error"
           /\ UploadingCount(items) < maxConcurrent
           /\ QueuedItems(items, uploadQueueRef) # <<>>
           /\ Head(QueuedItems(items, uploadQueueRef)).file = f
           /\ timerFires)
          => (/\ StatusOf(items', f) = "uploading"
              /\ \E h \in Started :
                   attempt'[h].file = f /\ attempt'[h].phase = "presign")]_vars

\* C7: clearCompleted removes exactly the 'complete' and 'error' records;
\* every 'queued' and 'uploading' record stays with all its fields and in the
\* same relative order, and no running transfer is touched.
C7_ClearCompletedFrame ==
  [][clearCompleted =>
       /\ \A i \in 1..Len(items) :
            (items[i].status \in {"queued", "uploading"})
              <=> (\E j \in 1..Len(items') : items'[j] = items[i])
       /\ \A j \in 1..Len(items') :
            /\ items'[j].status \in {"queued", "uploading"}
            /\ \E i \in 1..Len(items) : items[i] = items'[j]
       /\ \A j, k \in 1..Len(items') :
            j < k =>
              IndexOf(items, items'[j].file) < IndexOf(items, items'[k].file)
       /\ UNCHANGED <<attempt, abortControllers, uploadQueueRef, timers>>]_vars

\* clearCompleted was the third call, after the one that added two files and
\* the one that started them: it has removed the record whose transfer had
\* ended and kept the record that is still being sent
C7_Witness ==
  /\ last = "clearCompleted"
  /\ calls = 3
  /\ Cardinality(submitted) = 2
  /\ Len(items) = 1
  /\ items[1].status = "uploading"
  /\ \E h \in DOMAIN attempt : attempt[h].file = items[1].file

\* C8 (as stated): the overall progress equals the average of progress over
\* the 'uploading' and 'complete' records, and is 0 when there is none.
C8_OverallProgressExactAverage ==
  LET rel == RelevantItems(items)
  IN IF Len(rel) = 0
     THEN overallProgress(items) = 0
     ELSE overallProgress(items) * Len(rel) = TotalProgress(rel)

\* C8 (amended): the overall progress is the average of progress over the
\* 'uploading' and 'complete' records rounded to the nearest integer (halves
\* up), 0 when there is none, within 0..100, and it is the same with the
\* 'queued' and 'error' records as without them.
C8_OverallProgressRounded ==
  LET rel == RelevantItems(items)
      n == Len(rel)
      p == overallProgress(items)
  IN /\ p \in 0..100
     /\ n = 0 => p = 0
     /\ n > 0 => /\ 2 * n * p - n <= 2 * TotalProgress(rel)
                 /\ 2 * TotalProgress(rel) < 2 * n * p + n
     /\ p = overallProgress(rel)

\* a record at 33 and a record at 100 are being sent or sent, a third of the
\* store is not: the average 66.5 is shown as 67
C8_Witness ==
  /\ \E i, j \in 1..Len(items) :
       /\ items[i].status \in {"uploading", "complete"}
       /\ items[i].progress = 33
       /\ items[j].status \in {"uploading", "complete"}
       /\ items[j].progress = 100
  /\ Len(RelevantItems(items)) = 2
  /\ overallProgress(items) = 67

\* C9: with autoUpload, every queued record is eventually admitted without
\* further user action; so whenever nothing is pending (no timer, no running
\* transfer) no record is left 'queued'.
C9_NoQueuedRecordLeftIdle ==
  (autoUpload /\ timers = <<>> /\ DOMAIN attempt = {})
    => ~HasStatus(items, "queued")

\* C10: every change of a record's status is queued->uploading,
\* uploading->complete, uploading->error, error->queued by retryUpload, or a
\* change to 'error' with message 'Cancelled' made by cancelUpload.
C10_StatusTransitions ==
  [][\A f \in ItemFiles(items) \cap ItemFiles(items') :
       LET a == StatusOf(items, f)
           b == StatusOf(items', f)
       IN a # b =>
            \/ a = "queued" /\ b = "uploading"
            \/ a = "uploading" /\ b \in {"complete", "error"}
            \/ a = "error" /\ b = "queued"
                 /\ retryUpload(ItemOf(items, f).id)
            \/ b = "error" /\ ErrorOf(items', f) = "Cancelled"
                 /\ cancelUpload(ItemOf(items, f).id)]_vars

\* C11: there is no automatic retry: no transfer attempt (handle, resolver
\* call, status 'uploading') is started for a record whose status is 'error';
\* only retryUpload, which makes the record 'queued' again, lets one start.
C11_NoAutomaticRetry ==
  [][\A f \in ItemFiles(items) :
       StatusOf(items, f) = "error" => f \notin StartedFiles]_vars

\* C12: removeItem(id) leaves no dangling transfer: when it is called while an
\* attempt for id runs (resolver pending or bytes in transit), no attempt for
\* id runs afterwards, so none sends bytes, completes or calls a callback.
C12_RemoveLeavesNoTransfer ==
  [][\A id \in AttemptIds(attempt) :
       removeItem(id)
         => (id \notin ItemIds(items') /\ id \notin AttemptIds(attempt'))]_vars

\* C13: cancellation is not retroactive: cancelUpload(id) on a record that is
\* already 'complete' leaves the record as it is ('complete', progress 100,
\* url and key unchanged).
C13_CancelKeepsComplete ==
  [][\A f \in ItemFiles(items) :
       (StatusOf(items, f) = "complete" /\ cancelUpload(ItemOf(items, f).id))
         => (f \in ItemFiles(items') /\ ItemOf(items', f) = ItemOf(items, f))]_vars

\* invocation h ends in transport-level success
EndsInSuccess(h) ==
  \E st \in HttpStatuses, cb \in CallbackOutcomes :
    IsSuccessStatus(st) /\ xhrLoad(h, st, cb)

\* invocation h ends in a resolver or transport failure
EndsInFailure(h) ==
  \/ \E msg \in ResolverMessages : presignFails(h, msg)
  \/ \E st \in HttpStatuses, cb \in CallbackOutcomes :
       ~IsSuccessStatus(st) /\ xhrLoad(h, st, cb)
  \/ xhrError(h)

\* C14: an attempt that ends in success calls onUploadComplete exactly once
\* and nothing else; an attempt that ends in a resolver or transport failure
\* calls onError exactly once and nothing else; no other step calls a callback.
C14_CallbacksOncePerAttempt ==
  [][/\ \A h \in DOMAIN attempt :
          /\ EndsInSuccess(h) => invoked' = <<"onUploadComplete">>
          /\ EndsInFailure(h) => invoked' = <<"onError">>
     /\ (\A h \in DOMAIN attempt : ~EndsInSuccess(h) /\ ~EndsInFailure(h))
          => invoked' = <<>>]_vars

\* invocation h ends in a failure with message msg
FailsWith(h, msg) ==
  \/ msg \in ResolverMessages /\ presignFails(h, msg)
  \/ \E st \in HttpStatuses, cb \in CallbackOutcomes :
       ~IsSuccessStatus(st) /\ msg = StatusMessage(st) /\ xhrLoad(h, st, cb)
  \/ msg = "Upload failed" /\ xhrError(h)

FailureMessages ==
  ResolverMessages \cup {StatusMessage(st) : st \in HttpStatuses}
    \cup {"Upload failed"}

\* C15: an attempt is treated as cancelled (record 'error' with 'Cancelled',
\* onError not called) exactly when the user aborted it: an aborted attempt
\* ends that way, and a failure of an attempt the user did not abort sets the
\* record's error to the failure message and calls onError.
C15_CancelledIffUserAbort ==
  [][\A h \in DOMAIN attempt :
       /\ (UserAborted(h) /\ h \in Ended)
            => /\ invoked' = <<>>
               /\ attempt[h].file \in ItemFiles(items')
                    => (StatusOf(items', attempt[h].file) = "error"
                        /\ ErrorOf(items', attempt[h].file) = "Cancelled")
       /\ \A msg \in FailureMessages :
            (/\ ~UserAborted(h)
             /\ attempt[h].file \in ItemFiles(items)
             /\ FailsWith(h, msg))
              => /\ invoked' = <<"onError">>
                 /\ StatusOf(items', attempt[h].file) = "error"
                 /\ ErrorOf(items', attempt[h].file) = msg]_vars

\* the records other than the one of File object f, in store order
Others(list, f) == SelectSeq(list, LAMBDA item : item.file # f)

\* a step that concerns the record of f, whose id is `id`, leaves the rest
\* alone: every other record keeps all its fields and its position, every
\* other running transfer keeps its state and its handle, and the admission
\* of the others is untouched (same markers, same queued records in the same
\* order, same scheduled passes)
LocalTo(f, id) ==
  /\ Others(items', f) = Others(items, f)
  /\ ItemFiles(items') = ItemFiles(items)
  /\ \A i \in 1..Len(items) : items'[i].file = items[i].file
  /\ \A x \in DOMAIN attempt :
       attempt[x].file # f =>
         /\ x \in DOMAIN attempt' /\ attempt'[x] = attempt[x]
         /\ \A y \in DOMAIN abortControllers :
              abortControllers[y] = x =>
                (y \in DOMAIN abortControllers' /\ abortControllers'[y] = x)
  /\ uploadQueueRef' \ {id} = uploadQueueRef \ {id}
  /\ Others(QueuedItems(items', uploadQueueRef'), f)
       = Others(QueuedItems(items, uploadQueueRef), f)
  /\ timers' = timers

\* C16: per-file errors are local: when the transfer of a record fails
\* (resolver or transport) or the record is cancelled, no field of any other
\* record changes, no other record's transfer is aborted, and the admission
\* of the other queued records is as before.
C16_ErrorsAreLocal ==
  [][/\ \A h \in DOMAIN attempt :
          (attempt[h].file \in ItemFiles(items) /\ EndsInFailure(h))
            => LocalTo(attempt[h].file, attempt[h].id)
     /\ \A f \in ItemFiles(items) :
          cancelUpload(ItemOf(items, f).id)
            => LocalTo(f, ItemOf(items, f).id)]_vars

\* C17: in every reachable state a record has a defined error only if its
\* status is 'error'.
C17_ErrorOnlyInErrorStatus ==
  \A i \in 1..Len(items) :
    items[i].error # Undefined => items[i].status = "error"

\* C18: in every reachable state a record has a defined url or key only if
\* its status is 'complete'.
C18_UrlKeyOnlyWhenComplete ==
  \A i \in 1..Len(items) :
    (items[i].url # Undefined \/ items[i].key # Undefined)
      => items[i].status = "complete"

\* the resolver answer a record shows
ShownResponse(item) == [publicUrl |-> item.url, key |-> item.key]

\* C19: every 'complete' record has progress 100 and the url and key that the
\* resolver returned to the attempt that completed it: a record is 'complete'
\* after a step only if that step ended an attempt for its file and wrote the
\* attempt's resolver answer, or if it was 'complete' before and the step
\* left it as it is.
C19_CompleteRecordFields ==
  /\ [](\A i \in 1..Len(items) :
          items[i].status = "complete"
            => /\ items[i].progress = 100
               /\ ShownResponse(items[i]) \in PresignedResponses)
  /\ [][\A f \in ItemFiles(items') :
          StatusOf(items', f) = "complete"
            => \/ \E h \in Ended :
                    /\ attempt[h].file = f
                    /\ attempt[h].presigned \in PresignedResponses
                    /\ ShownResponse(ItemOf(items', f)) = attempt[h].presigned
               \/ /\ StatusOf(items, f) = "complete"
                  /\ ItemOf(items', f) = ItemOf(items, f)]_vars

\* C20: in every reachable state every record with status 'uploading' has a
\* cancellation handle registered under its id in abortControllers.
C20_UploadingHasHandle ==
  \A i \in 1..Len(items) :
    items[i].status = "uploading" => items[i].id \in DOMAIN abortControllers

\* one record is mid-transfer and its handle is that of its running
\* invocation, while the handle of a record whose transfer has ended is gone
C20_Witness ==
  \E i, j \in 1..Len(items) :
    /\ items[i].status = "uploading"
    /\ items[i].id \in DOMAIN abortControllers
    /\ attempt[abortControllers[items[i].id]].file = items[i].file
    /\ attempt[abortControllers[items[i].id]].phase = "xhr"
    /\ items[j].status \in {"complete", "error"}
    /\ items[j].id \notin DOMAIN abortControllers

\* an abort by cancelUpload or removeItem reaches the XHR of invocation h
AbortEnds(h) ==
  /\ AbortDelivered(h)
  /\ attempt[h].id \in DOMAIN abortControllers
  /\ abortControllers[attempt[h].id] = h
  /\ (cancelUpload(attempt[h].id) \/ removeItem(attempt[h].id))

\* uploadFile invocation h runs its last continuation: a transfer event ends
\* it, or an abort reaches its XHR
AttemptEnds(h) == TransferEnds(h) \/ AbortEnds(h)

\* C21: every transfer attempt, however it ends (success, resolver failure,
\* transport failure, cancellation, a throwing callback), removes its id from
\* abortControllers and from uploadQueueRef and leaves no record of that id
\* 'uploading'; an invocation ends in no other way, and a handle or a marker
\* exists only for an id that has a running invocation.
C21_AttemptEndReleases ==
  /\ [](/\ DOMAIN abortControllers \subseteq AttemptIds(attempt)
        /\ uploadQueueRef \subseteq AttemptIds(attempt))
  /\ [][\A h \in DOMAIN attempt :
          /\ AttemptEnds(h) => h \in Ended
          /\ h \in Ended
               => /\ AttemptEnds(h)
                  /\ attempt[h].id \notin DOMAIN abortControllers'
                  /\ attempt[h].id \notin uploadQueueRef'
                  /\ "uploading" \notin StatusesOf(items', attempt[h].id)]_vars

\* an attempt has just ended through a throwing onUploadComplete: its handle
\* and marker are gone and the record is 'error'
C21_Witness ==
  /\ invoked = <<"onUploadComplete", "onError">>
  /\ \E i \in 1..Len(items) :
       /\ items[i].status = "error"
       /\ items[i].error = CallbackMessage
       /\ items[i].id \notin DOMAIN abortControllers
       /\ items[i].id \notin uploadQueueRef
       /\ items[i].id \notin AttemptIds(attempt)

\* C22: for every record id at most one transfer attempt is in flight at any
\* time: no two running uploadFile invocations have the same id.
C22_OneAttemptPerId ==
  \A a, b \in DOMAIN attempt : attempt[a].id = attempt[b].id => a = b

\* C23: records are never destroyed automatically: a record leaves the store
\* only in a step of removeItem with its id, which removes exactly that id,
\* or of clearCompleted; every step keeps the remaining records in their
\* order, and every step other than these two keeps all records at their
\* positions.
C23_OnlyRemoveAndClearShrink ==
  [][/\ \A f \in ItemFiles(items) \ ItemFiles(items') :
          removeItem(ItemOf(items, f).id) \/ clearCompleted
     /\ \A id \in ItemIds(items) :
          removeItem(id) => ItemIds(items') = ItemIds(items) \ {id}
     /\ \A j, k \in 1..Len(items') :
          (j < k /\ {items'[j].file, items'[k].file} \subseteq ItemFiles(items))
            => IndexOf(items, items'[j].file) < IndexOf(items, items'[k].file)
     /\ (~clearCompleted /\ \A id \in ItemIds(items) : ~removeItem(id))
          => /\ Len(items') >= Len(items)
             /\ \A i \in 1..Len(items) :
                  /\ items'[i].file = items[i].file
                  /\ items'[i].id = items[i].id]_vars

\* removeItem has just removed the first of two records while its transfer
\* was running; the second one is still in the store, waiting
C23_Witness ==
  /\ last = "removeItem"
  /\ Cardinality(submitted) = 2
  /\ Len(items) = 1
  /\ items[1].status = "queued"
  /\ \E h \in DOMAIN attempt :
       attempt[h].file \in submitted \ {items[1].file}

\* ---------------------------------------------------- generated upload ids
\* the operations on the store that start no transfer, in a provider with
\* autoUpload={false}, the ids being any that generateUploadId produces
NextIds ==
  \/ \E files \in FileLists : \E ids \in [1..Len(files) -> GeneratedIds] :
       addFiles(files, ids)
  \/ \E id \in GeneratedIds : cancelUpload(id)
  \/ \E id \in GeneratedIds : removeItem(id)
  \/ clearCompleted

InitIds == Init /\ autoUpload = FALSE /\ maxConcurrent = 1

SpecIds == InitIds /\ [][NextIds]_vars

\* C24: in every reachable state no two records of the store have the same
\* id, whatever files are added, in one call or in several, at the same
\* instant or not.
C24_IdsAreUnique ==
  \A i, j \in 1..Len(items) : i # j => items[i].id # items[j].id

\* C25: uploadFiles(files) appends the given files and starts uploading: with
\* S free slots, the first min(S, number of queued records) queued records in
\* store order, the new files included, are 'uploading' after the call, and
\* every other record keeps its status; uploadFiles() with no files does so
\* for the records already queued, whatever autoUpload is.
C25_UploadFilesStartsFiles ==
  [][\A arg \in FileArgs : \A ids \in IdLists(Len(FilesOf(arg))) :
       uploadFiles(arg, ids) =>
         LET base == items \o NewItems(FilesOf(arg), ids)
             free == SlotsAvailable(items, maxConcurrent)
             queued == SelectSeq(base, LAMBDA item : item.status = "queued")
             k == IF free <= 0 THEN 0
                  ELSE IF free < Len(queued) THEN free ELSE Len(queued)
             started == {queued[i].file : i \in 1..k}
         IN /\ Len(items') = Len(base)
            /\ \A i \in 1..Len(base) :
                 /\ items'[i].file = base[i].file
                 /\ items'[i].status = IF base[i].file \in started
                                       THEN "uploading"
                                       ELSE base[i].status]_vars

\* a record that is 'uploading' after the step and was not before it
BecomesUploading ==
  \E i \in 1..Len(items') :
    /\ items'[i].status = "uploading"
    /\ StatusOf(items, items'[i].file) # "uploading"

\* C26: addFiles(files) adds the files without starting upload: it appends
\* one record per file, in input order (the i-th new record holds the i-th
\* file) after all existing records, each 'queued' with progress 0, leaves
\* the existing records unchanged, and by itself makes no record 'uploading':
\* neither the call nor the admission pass it schedules starts a transfer.
C26_AddFilesOnlyAppends ==
  /\ [][\A files \in FileLists : \A ids \in IdLists(Len(files)) :
          addFiles(files, ids) =>
            /\ Len(items') = Len(items) + Len(files)
            /\ SubSeq(items', 1, Len(items)) = items
            /\ \A i \in 1..Len(files) :
                 LET item == items'[Len(items) + i]
                 IN /\ item.file = files[i]
                    /\ item.fileName = files[i].name
                    /\ item.status = "queued"
                    /\ item.progress = 0
            /\ ~BecomesUploading
            /\ attempt' = attempt
            /\ abortControllers' = abortControllers
            /\ uploadQueueRef' = uploadQueueRef]_vars
  /\ [][(timers # <<>> /\ Head(timers).by = "addFiles" /\ timerFires)
          => (~BecomesUploading /\ Started = {})]_vars

\* -------------------------------------------- bucketkit-core specification
providerVars == <<items, abortControllers, uploadQueueRef, attempt, timers,
                  submitted, autoUpload, maxConcurrent, calls, last, invoked,
                  steps>>

\* createBucketKit(config) with a default upload policy, and the parameters
\* of the request the caller is about to make; no provider is in use
InitCore ==
  /\ items = <<>>
  /\ abortControllers = [id \in {} |-> 0]
  /\ uploadQueueRef = {}
  /\ attempt = [h \in {} |-> {}]
  /\ timers = <<>>
  /\ submitted = {}
  /\ autoUpload = TRUE
  /\ maxConcurrent = DefaultMaxConcurrent
  /\ calls = 0
  /\ steps = 0
  /\ last = "init"
  /\ invoked = <<>>
  /\ \E d \in DefaultPolicies, p \in UploadParams :
       core = [op |-> "createBucketKit", defaultUploadPolicy |-> d,
               params |-> p, resolving |-> Undefined, signing |-> Undefined,
               result |-> Undefined]

callValidateUploadRequest ==
  /\ core.op # "none"
  /\ core' = [op |-> "validateUploadRequest",
              defaultUploadPolicy |-> core.defaultUploadPolicy,
              params |-> core.params,
              resolving |-> Undefined, signing |-> Undefined,
              result |-> validateUploadRequest(core.defaultUploadPolicy,
                                               core.params)]
  /\ UNCHANGED providerVars

callCreatePresignedUpload(resolving, signing) ==
  /\ core.op # "none"
  /\ core' = [op |-> "createPresignedUpload",
              defaultUploadPolicy |-> core.defaultUploadPolicy,
              params |-> core.params,
              resolving |-> resolving, signing |-> signing,
              result |-> createPresignedUpload(core.defaultUploadPolicy,
                                               core.params, resolving,
                                               signing)]
  /\ UNCHANGED providerVars

NextCore ==
  \/ callValidateUploadRequest
  \/ \E resolving \in ResolverOutcomes, signing \in SigningOutcomes :
       callCreatePresignedUpload(resolving, signing)

SpecCore == InitCore /\ [][NextCore]_vars

\* the effective policy, field by field: the override if given, else the
\* default policy's value if given, else the built-in default
EffectiveMaxSize(d, o) ==
  IF o.maxSize # {} THEN ValueOf(o.maxSize)
  ELSE IF d.maxSize # {} THEN ValueOf(d.maxSize)
  ELSE 10485760

EffectiveAllowed(d, o) ==
  IF o.allowedMimeTypes # {} THEN o.allowedMimeTypes ELSE d.allowedMimeTypes

EffectiveResolver(d, o) ==
  IF o.pathResolver # {} THEN ValueOf(o.pathResolver)
  ELSE IF d.pathResolver # {} THEN ValueOf(d.pathResolver)
  ELSE "defaultPathResolver"

\* the patterns that occur in the policies
PolicyPatterns ==
  UNION {Range(ValueOf(a)) :
           a \in ({d.allowedMimeTypes : d \in DefaultPolicies}
                   \cup {o.allowedMimeTypes : o \in OverridePolicies}) \ {{}}}

\* the patterns of the policies a content type matches: the type itself, and
\* "<text up to a slash of the type>*"
MatchingPatterns(contentType) ==
  {pattern \in PolicyPatterns :
     \/ pattern = contentType
     \/ \E k \in 1..Len(contentType) :
          /\ SubSeq(contentType, k, k) = "/"
          /\ pattern = SubSeq(contentType, 1, k) \o "*"}

\* a name is blank when it has no code unit other than white space
IsBlank(name) == \A i \in 1..Len(name) : name[i] \in Whitespace

SizeOk(d, p) == p.size <= EffectiveMaxSize(d, p.policyOverrides)

MimeOk(d, p) ==
  LET allowed == EffectiveAllowed(d, p.policyOverrides)
  IN \/ allowed = {}
     \/ ValueOf(allowed) = <<>>
     \/ Range(ValueOf(allowed)) \cap MatchingPatterns(p.contentType) # {}

NameOk(p) == ~IsBlank(p.fileName)

\* C27: validateUploadRequest returns valid exactly when the size is at most
\* the effective maxSize, the effective allowedMimeTypes is absent, empty or
\* matches the content type, and the file name is not blank; otherwise the
\* code is that of the first failing check in the order FILE_TOO_LARGE,
\* INVALID_MIME_TYPE, INVALID_FILE_NAME.  The effective policy takes each
\* field from policyOverrides, else the default policy, else the built-in.
C27_ValidationResult ==
  core.op = "validateUploadRequest" =>
    LET d == core.defaultUploadPolicy
        p == core.params
        r == core.result
    IN /\ r.valid <=> (SizeOk(d, p) /\ MimeOk(d, p) /\ NameOk(p))
       /\ ~SizeOk(d, p) => r.code = "FILE_TOO_LARGE"
       /\ SizeOk(d, p) /\ ~MimeOk(d, p) => r.code = "INVALID_MIME_TYPE"
       /\ SizeOk(d, p) /\ MimeOk(d, p) /\ ~NameOk(p) =>
            r.code = "INVALID_FILE_NAME"

C27_Witness ==
  /\ core.op = "validateUploadRequest"
  /\ core.defaultUploadPolicy.maxSize = {10}
  /\ core.defaultUploadPolicy.allowedMimeTypes = {<<"image/*">>}
  /\ core.params.policyOverrides.maxSize = {}
  /\ core.params.policyOverrides.allowedMimeTypes =
       {<<"application/pdf", "text/*">>}
  /\ core.params.size = 10
  /\ core.params.contentType = "image/png"
  /\ core.params.fileName = <<160, 12288>>
  /\ core.result = Invalid("INVALID_MIME_TYPE")

ValidationCodes == {"FILE_TOO_LARGE", "INVALID_MIME_TYPE", "INVALID_FILE_NAME"}

\* C28: createPresignedUpload rejects with a BucketKitError carrying the
\* validation code exactly when validateUploadRequest on the same parameters
\* is invalid, and then calls neither the path resolver nor getSignedUrl;
\* when validation passes and signing succeeds it resolves with method PUT
\* and the key of the effective pathResolver; a signing failure is rejected
\* as BucketKitError S3_ERROR.
C28_PresignOutcome ==
  core.op = "createPresignedUpload" =>
    LET d == core.defaultUploadPolicy
        p == core.params
        r == core.result
        v == validateUploadRequest(d, p)
    IN /\ (r.rejected /\ r.error = "BucketKitError"
                      /\ r.code \in ValidationCodes) <=> ~v.valid
       /\ ~v.valid => r.code = v.code /\ r.called = <<>>
       /\ ~r.rejected =>
            /\ v.valid
            /\ core.signing = "signed"
            /\ r.method = "PUT"
            /\ r.key = ResolvedKey(EffectiveResolver(d, p.policyOverrides), p)
            /\ r.called = <<"pathResolver", "getSignedUrl">>
       /\ v.valid /\ core.resolving = "returns" /\ core.signing = "signed" =>
            ~r.rejected
       /\ v.valid /\ core.resolving = "returns" /\ core.signing = "fails" =>
            r.rejected /\ r.error = "BucketKitError" /\ r.code = "S3_ERROR"

C28_Witness ==
  /\ core.op = "createPresignedUpload"
  /\ core.defaultUploadPolicy.pathResolver = {"configResolver"}
  /\ core.params.policyOverrides.pathResolver = {"overrideResolver"}
  /\ core.signing = "signed"
  /\ ~core.result.rejected
  /\ core.result.method = "PUT"
  /\ core.result.key = <<"overrideResolver", NamePng>>

\* the records an admission pass over `snap` starts in this step are queued
\* unmarked records of `snap`, no queued unmarked record of `snap` that
\* precedes a started one is left out, and uploadFile is invoked for them in
\* the order of `snap`
PassIsFifo(snap) ==
  LET eligible(i) ==
        snap[i].status = "queued" /\ snap[i].id \notin uploadQueueRef
  IN /\ \A f \in StartedFiles : \E i \in 1..Len(snap) :
          snap[i].file = f /\ eligible(i)
     /\ \A i, j \in 1..Len(snap) :
          (i < j /\ eligible(i) /\ eligible(j) /\ snap[j].file \in StartedFiles)
            => snap[i].file \in StartedFiles
     /\ \A a, b \in Started :
          a < b => IndexOf(snap, attempt'[a].file) < IndexOf(snap, attempt'[b].file)

\* C29: admission is first-in-first-out in store order: the records a
\* processQueue pass starts are the earliest records of its snapshot that are
\* 'queued' and not marked in flight; no such record is skipped in favour of
\* a later one, and transfers are started by admission passes only.
C29_AdmissionIsFifo ==
  [][/\ (timers # <<>> /\ timerFires) => PassIsFifo(Head(timers).items)
     /\ last' = "uploadFiles" => PassIsFifo(Snapshot(items))
     /\ Started # {} => last' \in {"timerFires", "uploadFiles"}]_vars

\* a pass with one free slot has just started the first of two queued
\* records and left the second one waiting
C29_Witness ==
  /\ last \in {"uploadFiles", "timerFires"}
  /\ maxConcurrent = 1
  /\ Len(items) = 2
  /\ items[1].status = "uploading"
  /\ items[2].status = "queued"
  /\ items[2].id \notin uploadQueueRef
  /\ uploadQueueRef = {items[1].id}
  /\ \A h \in DOMAIN attempt :
       attempt[h].file = items[1].file /\ attempt[h].phase = "presign"
  /\ DOMAIN attempt # {}

\* the XHR of invocation h is opened and sent in this step
TransferStarts(h) ==
  /\ h \in DOMAIN attempt'
  /\ attempt'[h].phase = "xhr"
  /\ ~(h \in DOMAIN attempt /\ attempt[h].phase = "xhr")

\* C30: every transfer attempt sets its record to 'uploading' with progress
\* 0, registers a fresh (unaborted) cancellation handle under its id and
\* invokes the destination resolver once, holding no destination yet; the
\* byte transfer starts only when that invocation has succeeded and uses its
\* result, which stays the destination for the rest of the attempt; so a
\* retry, being a new attempt, invokes the resolver again and reuses no
\* earlier destination.
C30_AttemptInvokesResolverOnce ==
  /\ [][\A h \in Started :
          /\ attempt'[h].phase = "presign"
          /\ attempt'[h].presigned = NoResponse
          /\ attempt'[h].loaded = 0
          /\ ~attempt'[h].aborted
          /\ attempt'[h].id \notin DOMAIN abortControllers
          /\ attempt'[h].id \in DOMAIN abortControllers'
          /\ abortControllers'[attempt'[h].id] \in Started
          /\ \A i \in 1..Len(items') :
               items'[i].file = attempt'[h].file =>
                 items'[i].status = "uploading" /\ items'[i].progress = 0]_vars
  /\ [][\A h \in DOMAIN attempt' :
          TransferStarts(h) =>
            /\ h \in DOMAIN attempt
            /\ attempt[h].phase = "presign"
            /\ \E response \in PresignedResponses :
                 presignOk(h, response) /\ attempt'[h].presigned = response]_vars
  /\ [][\A h \in DOMAIN attempt \cap DOMAIN attempt' :
          attempt[h].phase = "xhr" =>
            /\ attempt'[h].phase = "xhr"
            /\ attempt'[h].presigned = attempt[h].presigned]_vars
  /\ [](\A h \in DOMAIN attempt :
          attempt[h].phase = "presign" <=> attempt[h].presigned = NoResponse)

\* a record that was sent once is being sent again: it still shows the key
\* of the first attempt, and the new attempt waits for the resolver with
\* no destination and an unaborted handle of its own
C30_Witness ==
  \E i \in 1..Len(items) :
    /\ last = "timerFires"
    /\ items[i].status = "uploading"
    /\ items[i].progress = 0
    /\ items[i].key # Undefined
    /\ items[i].id \in DOMAIN abortControllers
    /\ attempt[abortControllers[items[i].id]].file = items[i].file
    /\ attempt[abortControllers[items[i].id]].phase = "presign"
    /\ attempt[abortControllers[items[i].id]].presigned = NoResponse
    /\ ~attempt[abortControllers[items[i].id]].aborted

\* the message the claim expects for a failure body: the error field when it
\* holds a text, else the message field when it holds one, else the generic
\* text
ExpectedResolverMessage(body) ==
  IF body.error \notin {{}, {""}} THEN ValueOf(body.error)
  ELSE IF body.message \notin {{}, {""}} THEN ValueOf(body.message)
  ELSE "Failed to get upload URL"

\* C31: when the resolver answers non-2xx, the attempt has started no byte
\* transfer and starts none, the record becomes 'error' with the body's error
\* field, else its message field, else 'Failed to get upload URL' as message,
\* the handle and the marker of the id are discarded, and onError is called
\* exactly once.
C31_ResolverFailure ==
  [][\A h \in DOMAIN attempt : \A body \in ResolverBodies :
       presignFails(h, ResolverErrorMessage(body)) =>
         /\ attempt[h].phase = "presign"
         /\ h \in Ended
         /\ attempt[h].id \notin DOMAIN abortControllers'
         /\ attempt[h].id \notin uploadQueueRef'
         /\ \A i \in 1..Len(items') :
              items'[i].file = attempt[h].file =>
                /\ items'[i].status = "error"
                /\ items'[i].error = ExpectedResolverMessage(body)
         /\ invoked' = <<"onError">>]_vars

\* C32: a byte transfer ends all-or-nothing: when the transport finishes, the
\* record is 'complete' if and only if the status is in 200..299, any other
\* status leaves it 'error' with 'Upload failed with status <n>', and a
\* network error leaves it 'error' with 'Upload failed'; in each case the
\* attempt is over.
C32_TransferAllOrNothing ==
  [][\A h \in DOMAIN attempt :
       /\ \A st \in HttpStatuses, cb \in CallbackOutcomes :
            (attempt[h].file \in ItemFiles(items') /\ xhrLoad(h, st, cb)) =>
              /\ h \in Ended
              /\ StatusOf(items', attempt[h].file) = "complete"
                   <=> st \in 200..299
              /\ st \notin 200..299 =>
                   /\ StatusOf(items', attempt[h].file) = "error"
                   /\ st = 403 =>
                        ErrorOf(items', attempt[h].file)
                          = "Upload failed with status 403"
       /\ (attempt[h].file \in ItemFiles(items') /\ xhrError(h)) =>
            /\ h \in Ended
            /\ StatusOf(items', attempt[h].file) = "error"
            /\ ErrorOf(items', attempt[h].file) = "Upload failed"]_vars

\* a provider after addFiles([f]) on an empty store, counted as the first
\* step: one queued record, nothing in flight, and the pass that addFiles
\* scheduled with autoUpload has run and found the store of its render empty
InitQueued ==
  /\ \E f \in Files, id \in Ids :
       /\ items = <<NewItem(id, f)>>
       /\ submitted = {f}
  /\ abortControllers = [id \in {} |-> 0]
  /\ uploadQueueRef = {}
  /\ attempt = [h \in {} |-> {}]
  /\ timers = <<>>
  /\ autoUpload \in BOOLEAN
  /\ maxConcurrent \in MaxConcurrentValues
  /\ calls = 0
  /\ steps = 1
  /\ last = "addFiles"
  /\ invoked = <<>>
  /\ core = NoInstance

SpecQueued == InitQueued /\ [][Next]_vars

\* every field of a record but status and error
KeptByCancel(item) ==
  [f \in DOMAIN item \ {"status", "error"} |-> item[f]]

\* C33: cancelUpload(id) on a record that is 'queued', 'complete' or 'error'
\* sets its status to 'error' and its error to 'Cancelled', changes no other
\* field of it and no other record, and starts or aborts no transfer: the
\* attempts, handles and markers are those there were before and nothing is
\* scheduled; cancelUpload of an id that is not in the store changes nothing.
C33_CancelWhenNotUploading ==
  [][\A id \in CallableIds :
       /\ (/\ StatusesOf(items, id) # {}
           /\ "uploading" \notin StatusesOf(items, id)
           /\ cancelUpload(id)) =>
            /\ Len(items') = Len(items)
            /\ \A i \in 1..Len(items) :
                 IF items[i].id = id
                 THEN /\ items'[i].status = "error"
                      /\ items'[i].error = "Cancelled"
                      /\ KeptByCancel(items'[i]) = KeptByCancel(items[i])
                 ELSE items'[i] = items[i]
            /\ DOMAIN attempt' = DOMAIN attempt
            /\ DOMAIN abortControllers' = DOMAIN abortControllers
            /\ uploadQueueRef' = uploadQueueRef
            /\ timers' = timers
       /\ (id \notin ItemIds(items) /\ cancelUpload(id)) =>
            /\ items' = items
            /\ attempt' = attempt
            /\ abortControllers' = abortControllers
            /\ uploadQueueRef' = uploadQueueRef
            /\ timers' = timers]_vars

\* C34: in every reachable state the progress of every record is an integer
\* in 0..100, and over every step in which a record is 'uploading' before and
\* after, its progress does not decrease (the transport reports increasing
\* byte counts up to the total).
C34_ProgressBoundedMonotonic ==
  /\ [](\A i \in 1..Len(items) : items[i].progress \in 0..100)
  /\ [][\A i \in 1..Len(items) : \A j \in 1..Len(items') :
          (/\ items'[j].file = items[i].file
           /\ items[i].status = "uploading"
           /\ items'[j].status = "uploading")
            => items'[j].progress >= items[i].progress]_vars

\* the fields of a record that describe the file it stands for
IdentityOf(item) ==
  [id |-> item.id, fileName |-> item.fileName, size |-> item.size,
   contentType |-> item.contentType, file |-> item.file]

\* C35: the id, fileName, size, contentType and file reference of a record
\* are those captured from the source file at creation and never change
\* while the record is in the store, under every operation and transfer
\* event: every record of the store after a step is a new one or has the
\* identity fields a record of the store had before.
C35_IdentityFieldsImmutable ==
  /\ [](\A i \in 1..Len(items) :
          /\ items[i].fileName = items[i].file.name
          /\ items[i].size = items[i].file.size
          /\ items[i].contentType = items[i].file.type
          /\ items[i].id \in Ids
          /\ items[i].file \in submitted)
  /\ [][\A j \in 1..Len(items') :
          \/ items'[j].file \notin submitted
          \/ \E i \in 1..Len(items) :
               IdentityOf(items'[j]) = IdentityOf(items[i])]_vars

\* a record that was sent and then retried is queued again with the key of
\* its transfer and the identity fields addFiles gave it
C35_Witness ==
  /\ last = "retryUpload"
  /\ Len(items) = 1
  /\ items[1].status = "queued"
  /\ items[1].key # Undefined
  /\ \E id \in Ids : IdentityOf(items[1]) = IdentityOf(NewItem(id, File(1)))
  /\ IdentityOf(items[1]).fileName = "photo1.png"
  /\ IdentityOf(items[1]).size = 3

\* ------------------------------------------------ per-record action triples
ActionNames == {"cancel", "remove", "retry"}

\* useUploadItemActions(itemId): each callable invokes the context operation
\* of the same purpose with itemId
useUploadItemActions(itemId) ==
  [cancel |-> "cancelUpload", remove |-> "removeItem", retry |-> "retryUpload"]

\* the actions argument BucketKitUploadList passes to a custom renderItem:
\* three empty functions
renderItemActions(itemId) ==
  [cancel |-> "placeholder", remove |-> "placeholder",
   retry |-> "placeholder"]

\* calling one callable of a triple handed out for itemId
invokeItemAction(callable, itemId) ==
  CASE callable = "cancelUpload" -> cancelUpload(itemId)
    [] callable = "removeItem" -> removeItem(itemId)
    [] callable = "retryUpload" -> retryUpload(itemId)
    [] OTHER -> /\ Call("placeholder")
                /\ UNCHANGED <<items, abortControllers, uploadQueueRef,
                               attempt, timers, submitted, autoUpload,
                               maxConcurrent>>

hookAction(name, itemId) ==
  invokeItemAction(useUploadItemActions(itemId)[name], itemId)

renderItemAction(name, itemId) ==
  invokeItemAction(renderItemActions(itemId)[name], itemId)

\* the provider with an upload list whose rows use the action triples
NextActions ==
  \/ Next
  \/ \E id \in CallableIds, name \in ActionNames : hookAction(name, id)
  \/ \E id \in Created, name \in ActionNames : renderItemAction(name, id)

SpecActions == Init /\ [][NextActions]_vars

\* what cancelUpload(id), removeItem(id), retryUpload(id) do to the store,
\* the handles, the markers and the scheduled passes
StoreEffect(name, id) ==
  CASE name = "cancel" ->
         /\ items' = CancelledItems(items, id)
         /\ abortUpload(id)
         /\ timers' = timers
    [] name = "remove" ->
         /\ items' = RemovedItems(CancelledItems(items, id), id)
         /\ abortUpload(id)
         /\ timers' = timers
    [] name = "retry" ->
         /\ items' = RetriedItems(items, id)
         /\ timers' = Append(timers, Closure("retryUpload", id))
         /\ UNCHANGED <<abortControllers, uploadQueueRef, attempt>>

\* C36: the action triple handed out for an item is operative: calling
\* cancel, remove or retry of the triple for item id, whether it came from
\* useUploadItemActions or as the actions argument of a custom renderItem,
\* has the effect of cancelUpload(id), removeItem(id) or retryUpload(id).
C36_ItemActionsOperative ==
  [][\A id \in Created : \A name \in ActionNames :
       (hookAction(name, id) \/ renderItemAction(name, id))
         => StoreEffect(name, id)]_vars

\* C37: the number of transfer attempts in flight, counted as the ids in the
\* abort-handle map, never exceeds maxConcurrent, whatever has happened to
\* the status of the records in flight or to the records themselves.
C37_InFlightWithinLimit ==
  Cardinality(DOMAIN abortControllers) <= maxConcurrent

\* ------------------------------------------- processQueue on drawn inputs
MaxSnapshot == 3         \* records in the store processQueue is applied to
MaxConcurrentBound == 2  \* the re-rendered maxConcurrent is in 0..this

SnapshotStatuses == {"queued", "uploading", "complete"}

\* the stores of up to MaxSnapshot records that were added, of which some are
\* in a first attempt and some have completed
DrawnStores ==
  UNION {
    {[i \in 1..n |->
        Merge(NewItem(generateUploadId(i, "k3j9x2a"), File(i)),
              [status |-> st[i],
               progress |-> IF st[i] = "complete" THEN 100 ELSE 0])] :
       st \in [1..n -> SnapshotStatuses]} :
    n \in 1..MaxSnapshot}

UploadingIndexes(list) == {j \in 1..Len(list) : list[j].status = "uploading"}

UploadingIds(list) == {list[j].id : j \in UploadingIndexes(list)}

\* a provider holding a drawn store, re-rendered with a drawn maxConcurrent
\* (the prop may have been lowered, down to 0, since the transfers started);
\* every 'uploading' record has its attempt waiting for the resolver
InitAdmission ==
  /\ items \in DrawnStores
  /\ maxConcurrent \in 0..MaxConcurrentBound
  /\ uploadQueueRef = UploadingIds(items)
  /\ abortControllers =
       [id \in UploadingIds(items) |->
          CHOOSE j \in UploadingIndexes(items) : items[j].id = id]
  /\ attempt = [j \in UploadingIndexes(items) |-> NewAttempt(items[j])]
  /\ timers = <<>>
  /\ submitted = ItemFiles(items)
  /\ autoUpload = FALSE
  /\ calls = 0
  /\ steps = 0
  /\ last = "render"
  /\ invoked = <<>>
  /\ core = NoInstance

\* the operations that run or schedule an admission pass
NextAdmission ==
  \/ uploadFiles({}, <<>>)
  \/ \E id \in Created \cup {GhostId} : retryUpload(id)
  \/ timerFires

SpecAdmission == InitAdmission /\ [][NextAdmission]_vars

\* an admission pass over `snap` with limit maxC is full
PassIsFull(snap, maxC) == UploadingCount(snap) >= maxC

\* C38: a processQueue pass starts no transfer whenever the number of
\* 'uploading' records it sees is greater than or equal to its maxConcurrent
\* (strictly greater and maxConcurrent = 0 included), however many records
\* are queued.
C38_FullPassStartsNothing ==
  [][/\ (PassIsFull(items, maxConcurrent) /\ uploadFiles({}, <<>>)) =>
          DOMAIN attempt' = DOMAIN attempt
     /\ (/\ timers # <<>>
         /\ PassIsFull(Head(timers).items, Head(timers).maxConcurrent)
         /\ timerFires) =>
          DOMAIN attempt' = DOMAIN attempt]_vars

\* C39: a transfer is started only for a record that, at the moment of
\* starting, is in the current store with status 'queued'; no admission pass
\* starts one for a record that has been removed or moved to 'error'
\* meanwhile.
C39_StartsOnlyQueuedInStore ==
  [][\A f \in StartedFiles : StatusOf(items, f) = "queued"]_vars

\* C40: an attempt that has set its record to 'complete' (the transport
\* finished with a 2xx status) does not set the record to 'error' afterwards
\* and does not call onError, whether onUploadComplete returns or throws.
C40_CompleteIsFinal ==
  [][\A h \in DOMAIN attempt :
       \A st \in HttpStatuses, cb \in CallbackOutcomes :
         (IsSuccessStatus(st) /\ xhrLoad(h, st, cb)) =>
           /\ "onError" \notin Range(invoked')
           /\ Len(SelectSeq(invoked', LAMBDA c : c = "onUploadComplete")) = 1
           /\ attempt[h].file \in ItemFiles(items') =>
                StatusOf(items', attempt[h].file) = "complete"]_vars

====
